---- MODULE Spec2Model ----
(***************************************************************************)
(* Model of the VeSync entity adapters of custom_components/vesync:        *)
(* humidifier.py (mode translation tables, VeSyncHumidifierHA properties   *)
(* and commands) and binary_sensor.py (_setup_entities and the sensor      *)
(* adapters).                                                              *)
(***************************************************************************)
EXTENDS Integers, Sequences, FiniteSets, TLC

VARIABLES
    smarthumidifier,        \* the vendor device object wrapped by VeSyncHumidifierHA
    available_modes_cache,  \* cached_property slot of VeSyncHumidifierHA.available_modes
    state_attributes,       \* host attribute names reported by HumidifierEntity.state_attributes
    last,                   \* the last call made on an adapter and what it did
    devices,                \* vendor device objects known to the binary_sensor platform
    entities                \* the adapters the last _setup_entities call handed to async_add_entities

vars == <<smarthumidifier, available_modes_cache, state_attributes, last, devices, entities>>

(***************************************************************************)
(* Bounds of the model.                                                    *)
(***************************************************************************)
MaxModes == 3          \* longest mist_modes list of a device
HumidityMargin == 2    \* how far around MIN_HUMIDITY / MAX_HUMIDITY arguments are drawn
MaxDetails == 3        \* most entries of a details mapping given to extra_state_attributes
MaxBatch == 2          \* most devices in one discovery batch

(***************************************************************************)
(* Python values.                                                          *)
(***************************************************************************)
None == "None"              \* Python None where a str is expected
NoneList == <<None>>        \* Python None where a list is expected
Unset == <<"unset">>        \* a cached_property holding a list, not computed yet
UnsetStr == "<unset>"       \* a cached_property holding a str, not computed yet

SeqsUpTo(S, n) == UNION {[1..k -> S] : k \in 0..n}

Range(s) == {s[i] : i \in 1..Len(s)}

(***************************************************************************)
(* humidifier.py: constants and translation tables.                        *)
(***************************************************************************)
MAX_HUMIDITY == 80
MIN_HUMIDITY == 30

VS_MODE_AUTO == "auto"
VS_MODE_HUMIDITY == "humidity"
VS_MODE_MANUAL == "manual"
VS_MODE_SLEEP == "sleep"

MODE_AUTO == "auto"
MODE_NORMAL == "normal"
MODE_SLEEP == "sleep"

\* A dict literal is its items in insertion order.
VS_TO_HA_MODE_MAP ==
    << <<VS_MODE_AUTO, MODE_AUTO>>,
       <<VS_MODE_HUMIDITY, MODE_AUTO>>,
       <<VS_MODE_MANUAL, MODE_NORMAL>>,
       <<VS_MODE_SLEEP, MODE_SLEEP>> >>

\* dict.keys()
DictKeys(d) == {d[i][1] : i \in 1..Len(d)}

\* dict.get(k): the value stored under k, None when k is no key.  Keys of a
\* dict are distinct, so the item is unique.
DictGet(d, k) ==
    IF k \in DictKeys(d)
    THEN LET i == CHOOSE j \in 1..Len(d) : d[j][1] = k IN d[i][2]
    ELSE None

\* What evaluating an expression did: it returned a value, or it raised an
\* exception (value then holds the exception's argument).
Returned(v) == [raise |-> None, value |-> v]
Raised(exc, arg) == [raise |-> exc, value |-> arg]

\* d[k]: the value stored under k, KeyError(k) when k is no key.
DictItem(d, k) ==
    IF k \in DictKeys(d)
    THEN LET i == CHOOSE j \in 1..Len(d) : d[j][1] = k IN Returned(d[i][2])
    ELSE Raised("KeyError", k)

\* d[k] = v: an existing key keeps its position and takes the new value, a
\* new key goes to the end.
DictSet(d, k, v) ==
    IF k \in DictKeys(d)
    THEN [i \in 1..Len(d) |-> IF d[i][1] = k THEN <<k, v>> ELSE d[i]]
    ELSE Append(d, <<k, v>>)

\* {v: k for k, v in d.items()}
RECURSIVE InvertFrom(_, _, _)
InvertFrom(d, i, acc) ==
    IF i > Len(d) THEN acc
    ELSE InvertFrom(d, i + 1, DictSet(acc, d[i][2], d[i][1]))

HA_TO_VS_MODE_MAP == InvertFrom(VS_TO_HA_MODE_MAP, 1, <<>>)

_get_ha_mode(vs_mode) == DictGet(VS_TO_HA_MODE_MAP, vs_mode)

_get_vs_mode(ha_mode) == DictGet(HA_TO_VS_MODE_MAP, ha_mode)

(***************************************************************************)
(* humidifier.py: VeSyncHumidifierHA.                                      *)
(***************************************************************************)
Humid200300S == "VeSyncHumid200300S"
Superior6000S == "VeSyncSuperior6000S"
Variants == {Humid200300S, Superior6000S}

\* self.min_humidity / self.max_humidity return the class attributes.
min_humidity == MIN_HUMIDITY
max_humidity == MAX_HUMIDITY

\* The body of the available_modes property.
RECURSIVE TranslateFrom(_, _, _)
TranslateFrom(mist_modes, i, modes) ==
    IF i > Len(mist_modes) THEN modes
    ELSE LET ha_mode == _get_ha_mode(mist_modes[i]) IN
         TranslateFrom(mist_modes, i + 1,
                       IF ha_mode = None THEN modes ELSE Append(modes, ha_mode))

\* available_modes without the "if ha_mode is None: continue".
ComputeAvailableModes_keep_unknown(dev) ==
    IF dev.mist_modes = NoneList THEN <<>>
    ELSE [i \in 1..Len(dev.mist_modes) |-> _get_ha_mode(dev.mist_modes[i])]

ComputeAvailableModes(dev) ==
    IF dev.mist_modes = NoneList THEN <<>>
    ELSE TranslateFrom(dev.mist_modes, 1, <<>>)

\* cached_property: computed on the first access, the stored value afterwards.
available_modes(dev, cache) ==
    IF cache = Unset THEN ComputeAvailableModes(dev) ELSE cache

\* What a call did: the vendor calls it made (method, argument, what the
\* vendor answered), whether it called schedule_update_ha_state, and whether
\* it returned or raised.
Outcome(op, arg, calls, refresh, outcome, error, result) ==
    [op |-> op, arg |-> arg, calls |-> calls, refresh |-> refresh,
     outcome |-> outcome, error |-> error, result |-> result]

Idle == Outcome("none", None, <<>>, FALSE, "return", None, None)

ERR_RANGE == "{humidity} is not between {self.min_humidity} and {self.max_humidity} (inclusive)"
ERR_MODE == "{mode} is not one of the valid available modes: {self.available_modes}"
ERR_SET_HUMIDITY == "An error occurred while setting humidity."
ERR_SET_MODE == "An error occurred while setting mode."
ERR_TURN_ON == "An error occurred while turning on."
ERR_TURN_OFF == "An error occurred while turning off."

\* set_humidity with range(min, max): the upper bound excluded.
set_humidity_exclusive(humidity, vendor_ok) ==
    IF humidity \notin min_humidity..(max_humidity - 1)
    THEN Outcome("set_humidity", humidity, <<>>, FALSE, "raise", ERR_RANGE, None)
    ELSE IF vendor_ok
    THEN Outcome("set_humidity", humidity, << <<"set_humidity", humidity, vendor_ok>> >>,
                 TRUE, "return", None, None)
    ELSE Outcome("set_humidity", humidity, << <<"set_humidity", humidity, vendor_ok>> >>,
                 FALSE, "raise", ERR_SET_HUMIDITY, None)

\* set_humidity(humidity), the vendor's set_humidity answering vendor_ok.
set_humidity(humidity, vendor_ok) ==
    IF humidity \notin min_humidity..max_humidity
    THEN Outcome("set_humidity", humidity, <<>>, FALSE, "raise", ERR_RANGE, None)
    ELSE IF vendor_ok
    THEN Outcome("set_humidity", humidity, << <<"set_humidity", humidity, vendor_ok>> >>,
                 TRUE, "return", None, None)
    ELSE Outcome("set_humidity", humidity, << <<"set_humidity", humidity, vendor_ok>> >>,
                 FALSE, "raise", ERR_SET_HUMIDITY, None)

\* set_mode(mode), the vendor's set_humidity_mode answering vendor_ok.
set_mode(modes, mode, vendor_ok) ==
    IF mode \notin Range(modes)
    THEN Outcome("set_mode", mode, <<>>, FALSE, "raise", ERR_MODE, None)
    ELSE IF vendor_ok
    THEN Outcome("set_mode", mode, << <<"set_humidity_mode", _get_vs_mode(mode), vendor_ok>> >>,
                 TRUE, "return", None, None)
    ELSE Outcome("set_mode", mode, << <<"set_humidity_mode", _get_vs_mode(mode), vendor_ok>> >>,
                 FALSE, "raise", ERR_SET_MODE, None)

\* turn_on(), the vendor's turn_on answering success.
turn_on(success) ==
    IF ~success
    THEN Outcome("turn_on", None, << <<"turn_on", None, success>> >>, FALSE, "raise", ERR_TURN_ON, None)
    ELSE Outcome("turn_on", None, << <<"turn_on", None, success>> >>, FALSE, "return", None, None)

\* turn_off that does not look at what the vendor answered.
turn_off_unchecked(success) ==
    Outcome("turn_off", None, << <<"turn_off", None, success>> >>, FALSE, "return", None, None)

\* turn_off(), the vendor's turn_off answering success.
turn_off(success) ==
    IF ~success
    THEN Outcome("turn_off", None, << <<"turn_off", None, success>> >>, FALSE, "raise", ERR_TURN_OFF, None)
    ELSE Outcome("turn_off", None, << <<"turn_off", None, success>> >>, FALSE, "return", None, None)

(***************************************************************************)
(* Inputs.                                                                 *)
(***************************************************************************)
UNKNOWN_MODE == "turbo"
VsModeStrings == DictKeys(VS_TO_HA_MODE_MAP) \cup {UNKNOWN_MODE}
HaModeStrings == {MODE_AUTO, MODE_NORMAL, MODE_SLEEP, VS_MODE_HUMIDITY, VS_MODE_MANUAL, UNKNOWN_MODE}
ModeStrings == VsModeStrings \cup HaModeStrings \cup {None}

HumidityArgs ==
    ((MIN_HUMIDITY - HumidityMargin)..(MIN_HUMIDITY + HumidityMargin))
        \cup ((MAX_HUMIDITY - HumidityMargin)..(MAX_HUMIDITY + HumidityMargin))

MistModes == SeqsUpTo(VsModeStrings, MaxModes) \cup {NoneList}

Device(variant, mist_modes, details, config, mode, device_status, enabled) ==
    [variant |-> variant, mist_modes |-> mist_modes, details |-> details,
     config |-> config, mode |-> mode, device_status |-> device_status,
     enabled |-> enabled]

(***************************************************************************)
(* Spec: the command surface of one humidifier adapter.                    *)
(***************************************************************************)
Init ==
    /\ \E variant \in Variants, mist_modes \in MistModes :
          smarthumidifier = Device(variant, mist_modes,
                                   << <<"mode", VS_MODE_MANUAL>>, <<"target_humidity", 45>> >>,
                                   << <<"auto_target_humidity", 45>> >>,
                                   VS_MODE_MANUAL, "on", TRUE)
    /\ available_modes_cache = Unset
    /\ state_attributes = {}
    /\ last = Idle
    /\ devices = <<>>
    /\ entities = <<>>

GetAvailableModes ==
    /\ available_modes_cache' = available_modes(smarthumidifier, available_modes_cache)
    /\ last' = Outcome("available_modes", None, <<>>, FALSE, "return", None,
                       available_modes_cache')
    /\ UNCHANGED <<smarthumidifier, state_attributes, devices, entities>>

GetHaMode ==
    \E vs_mode \in ModeStrings :
        /\ last' = Outcome("_get_ha_mode", vs_mode, <<>>, FALSE, "return", None,
                           _get_ha_mode(vs_mode))
        /\ UNCHANGED <<smarthumidifier, available_modes_cache, state_attributes,
                       devices, entities>>

GetVsMode ==
    \E ha_mode \in ModeStrings :
        /\ last' = Outcome("_get_vs_mode", ha_mode, <<>>, FALSE, "return", None,
                           _get_vs_mode(ha_mode))
        /\ UNCHANGED <<smarthumidifier, available_modes_cache, state_attributes,
                       devices, entities>>

SetHumidity ==
    \E humidity \in HumidityArgs, vendor_ok \in BOOLEAN :
        /\ last' = set_humidity(humidity, vendor_ok)
        /\ UNCHANGED <<smarthumidifier, available_modes_cache, state_attributes,
                       devices, entities>>

SetMode ==
    \E mode \in ModeStrings \ {None}, vendor_ok \in BOOLEAN :
        /\ available_modes_cache' = available_modes(smarthumidifier, available_modes_cache)
        /\ last' = set_mode(available_modes_cache', mode, vendor_ok)
        /\ UNCHANGED <<smarthumidifier, state_attributes, devices, entities>>

TurnOn ==
    \E success \in BOOLEAN :
        /\ last' = turn_on(success)
        /\ UNCHANGED <<smarthumidifier, available_modes_cache, state_attributes,
                       devices, entities>>

TurnOff ==
    \E success \in BOOLEAN :
        /\ last' = turn_off(success)
        /\ UNCHANGED <<smarthumidifier, available_modes_cache, state_attributes,
                       devices, entities>>

Next ==
    \/ GetAvailableModes
    \/ GetHaMode
    \/ GetVsMode
    \/ SetHumidity
    \/ SetMode
    \/ TurnOn
    \/ TurnOff

Spec == Init /\ [][Next]_vars

(***************************************************************************)
(* Claims checked under Spec.                                              *)
(***************************************************************************)
Commands == {"set_humidity", "set_mode", "turn_on", "turn_off"}

KnownVsModes == {"auto", "humidity", "manual", "sleep"}
KnownHaModes == {"auto", "normal", "sleep"}

\* The translation table as the documentation of the host and vendor modes
\* gives it, written out entry by entry.
TableVsToHa(v) ==
    CASE v = "auto" -> "auto"
      [] v = "humidity" -> "auto"
      [] v = "manual" -> "normal"
      [] v = "sleep" -> "sleep"

\* C1: for every known vendor mode string v the round trip
\* vendor -> host -> vendor returns v: _get_vs_mode(_get_ha_mode(v)) = v.
C1_RoundTrip ==
    (last.op = "_get_ha_mode" /\ last.arg \in KnownVsModes)
        => _get_vs_mode(last.result) = last.arg

\* C2: set_humidity(h) with h outside [30, 80] and set_mode(m) with m not in
\* available_modes raise the validation error with no vendor call and no
\* state refresh; 30 and 80 themselves pass validation and reach the vendor.
C2_InvalidArgumentRejected ==
    /\ last.op = "set_humidity" =>
          IF last.arg >= 30 /\ last.arg <= 80
          THEN /\ Len(last.calls) = 1
               /\ last.calls[1][1] = "set_humidity"
               /\ last.calls[1][2] = last.arg
          ELSE /\ last.outcome = "raise"
               /\ last.error = ERR_RANGE
               /\ last.calls = <<>>
               /\ ~last.refresh
    /\ last.op = "set_mode" =>
          LET mist == smarthumidifier.mist_modes
              offered == mist # NoneList
                           /\ \E i \in 1..Len(mist) :
                                 mist[i] \in KnownVsModes /\ TableVsToHa(mist[i]) = last.arg
          IN IF offered
             THEN /\ Len(last.calls) = 1
                  /\ last.calls[1][1] = "set_humidity_mode"
             ELSE /\ last.outcome = "raise"
                  /\ last.error = ERR_MODE
                  /\ last.calls = <<>>
                  /\ ~last.refresh

C2_Witness ==
    /\ last.op = "set_humidity"
    /\ last.arg = 81
    /\ last.outcome = "raise"
    /\ last.calls = <<>>

\* C3: for each of the four commands, when the vendor call answers failure
\* the command raises and schedules no state refresh.
C3_VendorFailureRaises ==
    (last.op \in Commands /\ last.calls # <<>> /\ ~last.calls[Len(last.calls)][3])
        => /\ last.outcome = "raise"
           /\ ~last.refresh
           /\ last.error \in {ERR_SET_HUMIDITY, ERR_SET_MODE, ERR_TURN_ON, ERR_TURN_OFF}

C3_Witness ==
    /\ last.op = "turn_off"
    /\ last.calls = << <<"turn_off", None, FALSE>> >>
    /\ last.outcome = "raise"

\* C4: no command returns normally without having called
\* schedule_update_ha_state.
C4_ReturnImpliesRefresh ==
    (last.op \in Commands /\ last.outcome = "return") => last.refresh

\* C6: an unknown mode string translates to None in either direction without
\* raising, and available_modes is the translations of the known entries of
\* mist_modes, in order, unknown entries dropped, [] when mist_modes is None.
C6_UnknownModeIsAbsent ==
    /\ (last.op = "_get_ha_mode" /\ last.arg \notin KnownVsModes)
          => (last.result = None /\ last.outcome = "return")
    /\ (last.op = "_get_vs_mode" /\ last.arg \notin KnownHaModes)
          => (last.result = None /\ last.outcome = "return")
    /\ last.op = "available_modes" =>
          LET mist == smarthumidifier.mist_modes
              known == IF mist = NoneList THEN <<>>
                       ELSE SelectSeq(mist, LAMBDA m : m \in KnownVsModes)
          IN /\ last.outcome = "return"
             /\ last.result = [i \in 1..Len(known) |-> TableVsToHa(known[i])]

C6_Witness ==
    /\ last.op = "available_modes"
    /\ smarthumidifier.mist_modes = <<"manual", "turbo", "sleep">>
    /\ last.result = <<"normal", "sleep">>

\* C10: whenever set_mode(m) passes validation, the vendor mode handed to
\* set_humidity_mode is not None and is one of the device's mist_modes, for
\* every device whose mist_modes are known vendor modes.
C10_VendorModeIsSupported ==
    (/\ last.op = "set_mode"
     /\ last.calls # <<>>
     /\ smarthumidifier.mist_modes # NoneList
     /\ Range(smarthumidifier.mist_modes) \subseteq KnownVsModes)
        => /\ last.calls[1][2] # None
           /\ last.calls[1][2] \in Range(smarthumidifier.mist_modes)

(***************************************************************************)
(* humidifier.py: the state properties of VeSyncHumidifierHA.              *)
(***************************************************************************)
\* target_humidity with the variant dispatch left out.
target_humidity_config_only(dev) == DictItem(dev.config, "auto_target_humidity")

target_humidity(dev) ==
    IF dev.variant = Superior6000S
    THEN DictItem(dev.details, "target_humidity")
    ELSE DictItem(dev.config, "auto_target_humidity")

mode(dev) ==
    IF dev.variant = Superior6000S
    THEN Returned(_get_ha_mode(dev.mode))
    ELSE LET item == DictItem(dev.details, "mode")
         IN IF item.raise # None THEN item ELSE Returned(_get_ha_mode(item.value))

is_on(dev) ==
    IF dev.variant = Superior6000S
    THEN Returned(dev.device_status = "on")
    ELSE Returned(dev.enabled)

\* A property read by the host: the value it returned, or the exception.
PropertyRead(op, r) ==
    IF r.raise = None
    THEN Outcome(op, None, <<>>, FALSE, "return", None, r.value)
    ELSE Outcome(op, None, <<>>, FALSE, "raise", r.raise \o ": " \o r.value, None)

(***************************************************************************)
(* SpecProps: the vendor library refreshes the device object, the host     *)
(* reads the adapter's state properties.                                   *)
(***************************************************************************)
TargetValues == {MIN_HUMIDITY, MAX_HUMIDITY}
StatusValues == {"on", "off"}

InitProps ==
    /\ \E variant \in Variants, m1 \in VsModeStrings, m2 \in VsModeStrings,
          t1 \in TargetValues, t2 \in TargetValues,
          status \in StatusValues, enabled \in BOOLEAN :
          smarthumidifier = Device(variant, <<VS_MODE_AUTO, VS_MODE_SLEEP, VS_MODE_MANUAL>>,
                                   << <<"mode", m1>>, <<"target_humidity", t1>> >>,
                                   << <<"auto_target_humidity", t2>> >>,
                                   m2, status, enabled)
    /\ available_modes_cache = Unset
    /\ state_attributes = {}
    /\ last = Idle
    /\ devices = <<>>
    /\ entities = <<>>

\* The vendor library rewrites one field of the device object.
DeviceUpdate ==
    /\ \/ \E m \in VsModeStrings :
             smarthumidifier' =
                 [smarthumidifier EXCEPT !.details = DictSet(@, "mode", m)]
       \/ \E m \in VsModeStrings :
             smarthumidifier' = [smarthumidifier EXCEPT !.mode = m]
       \/ \E t \in TargetValues :
             smarthumidifier' =
                 [smarthumidifier EXCEPT !.details = DictSet(@, "target_humidity", t)]
       \/ \E t \in TargetValues :
             smarthumidifier' =
                 [smarthumidifier EXCEPT !.config = DictSet(@, "auto_target_humidity", t)]
       \/ \E status \in StatusValues :
             smarthumidifier' = [smarthumidifier EXCEPT !.device_status = status]
       \/ \E enabled \in BOOLEAN :
             smarthumidifier' = [smarthumidifier EXCEPT !.enabled = enabled]
    /\ last' = Outcome("update", None, <<>>, FALSE, "return", None, None)
    /\ UNCHANGED <<available_modes_cache, state_attributes, devices, entities>>

ReadTargetHumidity ==
    /\ last' = PropertyRead("target_humidity", target_humidity(smarthumidifier))
    /\ UNCHANGED <<smarthumidifier, available_modes_cache, state_attributes,
                   devices, entities>>

ReadMode ==
    /\ last' = PropertyRead("mode", mode(smarthumidifier))
    /\ UNCHANGED <<smarthumidifier, available_modes_cache, state_attributes,
                   devices, entities>>

ReadIsOn ==
    /\ last' = PropertyRead("is_on", is_on(smarthumidifier))
    /\ UNCHANGED <<smarthumidifier, available_modes_cache, state_attributes,
                   devices, entities>>

NextProps ==
    \/ DeviceUpdate
    \/ ReadTargetHumidity
    \/ ReadMode
    \/ ReadIsOn

SpecProps == InitProps /\ [][NextProps]_vars

\* C9: in every state the three properties read from the adapter equal the
\* variant's device fields as they are at the time of the read:
\* Superior6000S: details[target_humidity], translation of the mode field,
\* device_status = "on"; Humid200300S: config[auto_target_humidity],
\* translation of details[mode], enabled.
C9_MirrorsDeviceByVariant ==
    LET dev == smarthumidifier
        superior == dev.variant = "VeSyncSuperior6000S"
        field(d, k) == LET i == CHOOSE j \in 1..Len(d) : d[j][1] = k IN d[i][2]
        translated(v) == IF v \in KnownVsModes THEN TableVsToHa(v) ELSE None
    IN /\ last.op \in {"target_humidity", "mode", "is_on"} => last.outcome = "return"
       /\ last.op = "target_humidity" =>
             last.result = IF superior THEN field(dev.details, "target_humidity")
                           ELSE field(dev.config, "auto_target_humidity")
       /\ last.op = "mode" =>
             last.result = IF superior THEN translated(dev.mode)
                           ELSE translated(field(dev.details, "mode"))
       /\ last.op = "is_on" =>
             last.result = IF superior THEN dev.device_status = "on" ELSE dev.enabled

C9_Witness ==
    /\ last.op = "target_humidity"
    /\ smarthumidifier.variant = "VeSyncSuperior6000S"
    /\ DictGet(smarthumidifier.details, "target_humidity") = MAX_HUMIDITY
    /\ DictGet(smarthumidifier.config, "auto_target_humidity") = MIN_HUMIDITY
    /\ last.result = MAX_HUMIDITY

(***************************************************************************)
(* humidifier.py: extra_state_attributes.                                  *)
(***************************************************************************)
\* const.py: the static rename table of vendor state keys.
VS_TO_HA_ATTRIBUTES == << <<"humidity", "current_humidity">> >>

\* The loop with its first two branches in the other order.
RECURSIVE extra_state_attributes_collision_first(_, _, _, _)
extra_state_attributes_collision_first(details, host_attributes, i, attr) ==
    IF i > Len(details) THEN attr
    ELSE LET k == details[i][1]
             v == details[i][2]
         IN extra_state_attributes_collision_first(details, host_attributes, i + 1,
                IF k \in host_attributes
                THEN DictSet(attr, "vs_" \o k, v)
                ELSE IF k \in DictKeys(VS_TO_HA_ATTRIBUTES)
                THEN DictSet(attr, DictItem(VS_TO_HA_ATTRIBUTES, k).value, v)
                ELSE DictSet(attr, k, v))

\* The loop of extra_state_attributes from its i-th item on, attr being the
\* dict built so far.
RECURSIVE extra_state_attributes(_, _, _, _)
extra_state_attributes(details, host_attributes, i, attr) ==
    IF i > Len(details) THEN attr
    ELSE LET k == details[i][1]
             v == details[i][2]
         IN extra_state_attributes(details, host_attributes, i + 1,
                IF k \in DictKeys(VS_TO_HA_ATTRIBUTES)
                THEN DictSet(attr, DictItem(VS_TO_HA_ATTRIBUTES, k).value, v)
                ELSE IF k \in host_attributes
                THEN DictSet(attr, "vs_" \o k, v)
                ELSE DictSet(attr, k, v))

(***************************************************************************)
(* SpecAttrs: the host reads extra_state_attributes of an adapter whose    *)
(* device reports some details mapping.                                    *)
(***************************************************************************)
DetailKeys == {"humidity", "mode", "water_lacks", "current_humidity", "vs_mode"}
DetailValues == {"low", "high"}

\* Python dicts: items in insertion order, keys distinct.
Dicts(K, V, n) ==
    {d \in SeqsUpTo(K \X V, n) : \A i, j \in 1..Len(d) : d[i][1] = d[j][1] => i = j}

\* HumidifierEntity.state_attributes always carries mode (the adapter
\* supports modes) and carries humidity when target_humidity is not None.
HostStateAttributes == {{"mode"}, {"mode", "humidity"}}

InitAttrs ==
    /\ \E details \in Dicts(DetailKeys, DetailValues, MaxDetails) :
          smarthumidifier = Device(Humid200300S, <<VS_MODE_AUTO, VS_MODE_SLEEP, VS_MODE_MANUAL>>,
                                   details, <<>>, VS_MODE_MANUAL, "on", TRUE)
    /\ available_modes_cache = Unset
    /\ state_attributes \in HostStateAttributes
    /\ last = Idle
    /\ devices = <<>>
    /\ entities = <<>>

\* The vendor library stores one state key.
DetailsUpdate ==
    \E k \in DetailKeys, v \in DetailValues :
        /\ k \in DictKeys(smarthumidifier.details)
              \/ Len(smarthumidifier.details) < MaxDetails
        /\ smarthumidifier' = [smarthumidifier EXCEPT !.details = DictSet(@, k, v)]
        /\ last' = Outcome("update", None, <<>>, FALSE, "return", None, None)
        /\ UNCHANGED <<available_modes_cache, state_attributes, devices, entities>>

\* The host's own attributes change with the entity's state.
HostAttributesChange ==
    /\ state_attributes' \in HostStateAttributes \ {state_attributes}
    /\ last' = Outcome("update", None, <<>>, FALSE, "return", None, None)
    /\ UNCHANGED <<smarthumidifier, available_modes_cache, devices, entities>>

ReadExtraStateAttributes ==
    /\ last' = Outcome("extra_state_attributes", None, <<>>, FALSE, "return", None,
                       extra_state_attributes(smarthumidifier.details, state_attributes,
                                              1, <<>>))
    /\ UNCHANGED <<smarthumidifier, available_modes_cache, state_attributes,
                   devices, entities>>

NextAttrs ==
    \/ DetailsUpdate
    \/ HostAttributesChange
    \/ ReadExtraStateAttributes

SpecAttrs == InitAttrs /\ [][NextAttrs]_vars

\* The output key of the ordered rule list: (1) renamed when in the static
\* rename table, (2) otherwise vs_k when k is a host state-attribute name,
\* (3) otherwise k itself.
RuleKey(k) ==
    IF \E i \in 1..Len(VS_TO_HA_ATTRIBUTES) : VS_TO_HA_ATTRIBUTES[i][1] = k
    THEN LET i == CHOOSE j \in 1..Len(VS_TO_HA_ATTRIBUTES) : VS_TO_HA_ATTRIBUTES[j][1] = k
         IN VS_TO_HA_ATTRIBUTES[i][2]
    ELSE IF k \in state_attributes THEN "vs_" \o k
    ELSE k

\* C8 as stated: every details entry (k, v) is in the result under the key
\* the ordered rule list gives k, with its value v unaltered.
C8_EveryEntryRepresented ==
    last.op = "extra_state_attributes" =>
        \A i \in 1..Len(smarthumidifier.details) :
            \E j \in 1..Len(last.result) :
                last.result[j] = <<RuleKey(smarthumidifier.details[i][1]),
                                   smarthumidifier.details[i][2]>>

\* C8 amended: the keys of the result are exactly the rule-list keys of the
\* details keys, each stored once; the value under an output key is the
\* unaltered value of the last details entry re-keyed to it, so every
\* details entry whose output key no later entry shares is represented.
C8_RekeyedLastEntryWins ==
    last.op = "extra_state_attributes" =>
        LET details == smarthumidifier.details
            result == last.result
            shadowed(i) == \E i2 \in (i + 1)..Len(details) :
                              RuleKey(details[i2][1]) = RuleKey(details[i][1])
        IN /\ \A i \in 1..Len(details) :
                 ~shadowed(i) =>
                     \E j \in 1..Len(result) :
                         result[j] = <<RuleKey(details[i][1]), details[i][2]>>
           /\ \A j \in 1..Len(result) :
                 \E i \in 1..Len(details) :
                     ~shadowed(i) /\ result[j] = <<RuleKey(details[i][1]), details[i][2]>>
           /\ \A j1, j2 \in 1..Len(result) : result[j1][1] = result[j2][1] => j1 = j2

\* The first rule wins over the second: humidity is in the rename table and
\* is a host attribute name, and comes out as current_humidity.
C8_Witness ==
    /\ last.op = "extra_state_attributes"
    /\ state_attributes = {"mode", "humidity"}
    /\ smarthumidifier.details =
           << <<"humidity", "low">>, <<"mode", "high">>, <<"water_lacks", "low">> >>
    /\ last.result =
           << <<"current_humidity", "low">>, <<"vs_mode", "high">>, <<"water_lacks", "low">> >>

(***************************************************************************)
(* binary_sensor.py.  A device object is referred to by its place in       *)
(* devices; an adapter keeps that reference, its class, its stype (air     *)
(* fryer sensors only) and the cached_property slot of unique_id.          *)
(***************************************************************************)
AirfryerSensor == "VeSyncairfryerSensor"
OutOfWaterSensor == "VeSyncOutOfWaterSensor"
WaterTankLiftedSensor == "VeSyncWaterTankLiftedSensor"
FilterOpenStateSensor == "VeSyncFilterOpenStateSensor"

\* const.py: BINARY_SENSOR_TYPES_AIRFRYER.values(), each [key, name, icon].
BINARY_SENSOR_TYPES_AIRFRYER ==
    << <<"is_heating", "preheating", "mdi:pot-steam-outline">>,
       <<"is_cooking", "cooking", "mdi:rice">>,
       <<"is_running", "running", "mdi:pause">> >>

\* common.py: has_feature(device, dictionary, attribute), here always on the
\* details dictionary: the device exposes the key.
has_feature(dev, attribute) == attribute \in DictKeys(dev.details)

hasattr(dev, name) == name \in DictKeys(dev.attrs)

getattr(dev, name, default) ==
    IF name \in DictKeys(dev.attrs) THEN DictGet(dev.attrs, name) ELSE default

\* common.py: VeSyncBaseEntity.unique_id, the device's identifier.
base_unique_id(dev) == dev.uuid

Entity(cls, ref, stype) ==
    [cls |-> cls, device |-> ref, stype |-> stype, unique_id |-> UnsetStr]

\* The adapters _setup_entities appends for the device object ref.
EntitiesFor(devs, ref) ==
    (IF hasattr(devs[ref], "fryer_status")
     THEN [t \in 1..Len(BINARY_SENSOR_TYPES_AIRFRYER) |->
              Entity(AirfryerSensor, ref, BINARY_SENSOR_TYPES_AIRFRYER[t])]
     ELSE <<>>)
    \o (IF has_feature(devs[ref], "water_lacks")
        THEN <<Entity(OutOfWaterSensor, ref, <<>>)>> ELSE <<>>)
    \o (IF has_feature(devs[ref], "water_tank_lifted")
        THEN <<Entity(WaterTankLiftedSensor, ref, <<>>)>> ELSE <<>>)
    \o (IF has_feature(devs[ref], "filter_open_state")
        THEN <<Entity(FilterOpenStateSensor, ref, <<>>)>> ELSE <<>>)

\* The capability checks chained with elif: at most one humidifier sensor.
RECURSIVE _setup_entities_elif(_, _, _, _)
_setup_entities_elif(devs, batch, i, acc) ==
    IF i > Len(batch) THEN acc
    ELSE _setup_entities_elif(devs, batch, i + 1,
            acc \o (IF hasattr(devs[batch[i]], "fryer_status")
                    THEN [t \in 1..Len(BINARY_SENSOR_TYPES_AIRFRYER) |->
                             Entity(AirfryerSensor, batch[i], BINARY_SENSOR_TYPES_AIRFRYER[t])]
                    ELSE <<>>)
                \o (IF has_feature(devs[batch[i]], "water_lacks")
                    THEN <<Entity(OutOfWaterSensor, batch[i], <<>>)>>
                    ELSE IF has_feature(devs[batch[i]], "water_tank_lifted")
                    THEN <<Entity(WaterTankLiftedSensor, batch[i], <<>>)>>
                    ELSE IF has_feature(devs[batch[i]], "filter_open_state")
                    THEN <<Entity(FilterOpenStateSensor, batch[i], <<>>)>>
                    ELSE <<>>))

\* _setup_entities(devices, ...): the loop from the i-th device of the batch
\* on, acc being the entities list built so far; the result is the list
\* handed to async_add_entities.
RECURSIVE _setup_entities(_, _, _, _)
_setup_entities(devs, batch, i, acc) ==
    IF i > Len(batch) THEN acc
    ELSE _setup_entities(devs, batch, i + 1, acc \o EntitiesFor(devs, batch[i]))

\* unique_id with the suffix of the neighbouring class.
unique_id_copied_suffix(devs, e) ==
    CASE e.cls = AirfryerSensor -> base_unique_id(devs[e.device]) \o "-" \o e.stype[1]
      [] e.cls = OutOfWaterSensor -> base_unique_id(devs[e.device]) \o "-out_of_water"
      [] e.cls = WaterTankLiftedSensor -> base_unique_id(devs[e.device]) \o "-water_tank_lifted"
      [] e.cls = FilterOpenStateSensor -> base_unique_id(devs[e.device]) \o "-water_tank_lifted"

\* The body of the unique_id property of each adapter class.
unique_id(devs, e) ==
    CASE e.cls = AirfryerSensor -> base_unique_id(devs[e.device]) \o "-" \o e.stype[1]
      [] e.cls = OutOfWaterSensor -> base_unique_id(devs[e.device]) \o "-out_of_water"
      [] e.cls = WaterTankLiftedSensor -> base_unique_id(devs[e.device]) \o "-water_tank_lifted"
      [] e.cls = FilterOpenStateSensor -> base_unique_id(devs[e.device]) \o "-filter-open-state"

\* The is_on property of each adapter class: the value it returns, or the
\* KeyError of the subscript when the details lack the key.
sensor_is_on(devs, e) ==
    CASE e.cls = AirfryerSensor -> Returned(getattr(devs[e.device], e.stype[1], FALSE))
      [] e.cls = OutOfWaterSensor -> DictItem(devs[e.device].details, "water_lacks")
      [] e.cls = WaterTankLiftedSensor -> DictItem(devs[e.device].details, "water_tank_lifted")
      [] e.cls = FilterOpenStateSensor -> DictItem(devs[e.device].details, "filter_open_state")

(***************************************************************************)
(* SpecBin: discovery of binary sensors.                                   *)
(***************************************************************************)
CapabilityKeys == <<"water_lacks", "water_tank_lifted", "filter_open_state">>

\* The details of a device exposing the capabilities caps, all reading True.
DetailsOf(caps) ==
    LET present == SelectSeq(CapabilityKeys, LAMBDA k : k \in caps)
    IN [i \in 1..Len(present) |-> <<present[i], TRUE>>]

FryerAttrs ==
    << <<"fryer_status", "cooking">>, <<"is_heating", FALSE>>,
       <<"is_cooking", TRUE>>, <<"is_running", TRUE>> >>

SensorDevice(uuid, caps, fryer) ==
    [uuid |-> uuid, details |-> DetailsOf(caps),
     attrs |-> IF fryer THEN FryerAttrs ELSE <<>>]

DevRefs == {1, 2}
Batches == SeqsUpTo(DevRefs, MaxBatch)

InitBin ==
    /\ smarthumidifier = Device(Humid200300S, NoneList, <<>>, <<>>, VS_MODE_MANUAL, "on", TRUE)
    /\ available_modes_cache = Unset
    /\ state_attributes = {}
    /\ last = Idle
    /\ \E caps1 \in SUBSET Range(CapabilityKeys), caps2 \in SUBSET Range(CapabilityKeys),
          fryer1 \in BOOLEAN, fryer2 \in BOOLEAN :
          devices = <<SensorDevice("uuid-1", caps1, fryer1),
                      SensorDevice("uuid-2", caps2, fryer2)>>
    /\ entities = <<>>

\* async_setup_entry or the discovery callback: _setup_entities on a batch.
SetupEntities ==
    \E batch \in Batches :
        /\ entities' = _setup_entities(devices, batch, 1, <<>>)
        /\ last' = Outcome("_setup_entities", batch, <<>>, FALSE, "return", None, None)
        /\ UNCHANGED <<smarthumidifier, available_modes_cache, state_attributes, devices>>

\* The vendor library stores a new reading under a key the device reports.
SensorUpdate ==
    \E ref \in DevRefs, k \in Range(CapabilityKeys), v \in BOOLEAN :
        /\ k \in DictKeys(devices[ref].details)
        /\ DictGet(devices[ref].details, k) # v
        /\ devices' = [devices EXCEPT ![ref].details = DictSet(@, k, v)]
        /\ UNCHANGED <<smarthumidifier, available_modes_cache, state_attributes,
                       last, entities>>

NextBin ==
    \/ SetupEntities
    \/ SensorUpdate

SpecBin == InitBin /\ [][NextBin]_vars

\* How many adapters of class cls (and, for the fryer sensors, of key) the
\* registered list holds for the device object ref.
Registered(ref, cls, key) ==
    Cardinality({j \in 1..Len(entities) :
                    /\ entities[j].device = ref
                    /\ entities[j].cls = cls
                    /\ (cls = "VeSyncairfryerSensor" => entities[j].stype[1] = key)})

Occurrences(batch, ref) == Cardinality({i \in 1..Len(batch) : batch[i] = ref})

HasKey(d, k) == \E i \in 1..Len(d) : d[i][1] = k

\* C5: after _setup_entities on a batch, each device of the batch has one
\* out-of-water adapter iff its details have water_lacks, one tank-lifted
\* adapter iff they have water_tank_lifted, one filter-open adapter iff they
\* have filter_open_state, one fryer adapter per fryer sensor type iff it
\* has a fryer_status attribute, and nothing else is registered; a device
\* with details = {water_lacks: True} alone yields exactly one adapter, the
\* out-of-water one, and its is_on is True.
C5_AdaptersMatchCapabilities ==
    last.op = "_setup_entities" =>
        LET batch == last.arg
            n(ref, present) == IF present THEN Occurrences(batch, ref) ELSE 0
            per(ref) ==
                n(ref, HasKey(devices[ref].details, "water_lacks"))
                + n(ref, HasKey(devices[ref].details, "water_tank_lifted"))
                + n(ref, HasKey(devices[ref].details, "filter_open_state"))
                + 3 * n(ref, HasKey(devices[ref].attrs, "fryer_status"))
        IN /\ \A ref \in DevRefs :
                /\ Registered(ref, "VeSyncOutOfWaterSensor", None)
                      = n(ref, HasKey(devices[ref].details, "water_lacks"))
                /\ Registered(ref, "VeSyncWaterTankLiftedSensor", None)
                      = n(ref, HasKey(devices[ref].details, "water_tank_lifted"))
                /\ Registered(ref, "VeSyncFilterOpenStateSensor", None)
                      = n(ref, HasKey(devices[ref].details, "filter_open_state"))
                /\ \A key \in {"is_heating", "is_cooking", "is_running"} :
                      Registered(ref, "VeSyncairfryerSensor", key)
                          = n(ref, HasKey(devices[ref].attrs, "fryer_status"))
           /\ Len(entities) = per(1) + per(2)
           /\ \A ref \in DevRefs :
                 (/\ batch = <<ref>>
                  /\ devices[ref].details = << <<"water_lacks", TRUE>> >>
                  /\ devices[ref].attrs = <<>>)
                     => /\ Len(entities) = 1
                        /\ entities[1].cls = "VeSyncOutOfWaterSensor"
                        /\ sensor_is_on(devices, entities[1]) = [raise |-> None, value |-> TRUE]

C5_Witness ==
    /\ last.op = "_setup_entities"
    /\ last.arg = <<1>>
    /\ devices[1].details = << <<"water_lacks", TRUE>> >>
    /\ devices[1].attrs = <<>>
    /\ Len(entities) = 1
    /\ entities[1].cls = "VeSyncOutOfWaterSensor"
    /\ sensor_is_on(devices, entities[1]) = [raise |-> None, value |-> TRUE]

(***************************************************************************)
(* SpecId: the host adds the discovered adapters and reads their           *)
(* unique_id while the devices keep reporting new state.                   *)
(***************************************************************************)
Uuids == {"uuid-a", "uuid-b"}

\* An air fryer and the humidifiers exposing one of the three sensors: every
\* adapter class occurs.
IdShapes ==
    { <<{}, TRUE>>,
      <<{"water_lacks"}, FALSE>>,
      <<{"water_tank_lifted"}, FALSE>>,
      <<{"filter_open_state"}, FALSE>> }

InitId ==
    /\ smarthumidifier = Device(Humid200300S, NoneList, <<>>, <<>>, VS_MODE_MANUAL, "on", TRUE)
    /\ available_modes_cache = Unset
    /\ state_attributes = {}
    /\ last = Idle
    /\ \E u1 \in Uuids, u2 \in Uuids, s1 \in IdShapes, s2 \in IdShapes :
          devices = <<SensorDevice(u1, s1[1], s1[2]), SensorDevice(u2, s2[1], s2[2])>>
    /\ entities = <<>>

\* The host reads unique_id of any adapter, at any time: cached_property
\* computes the value on the first read and stores it, a later read returns
\* the stored value.
ReadUniqueId ==
    \E j \in 1..Len(entities) :
        /\ entities' = [entities EXCEPT ![j].unique_id =
                            IF @ = UnsetStr THEN unique_id(devices, entities[j]) ELSE @]
        /\ last' = Outcome("unique_id", j, <<>>, FALSE, "return", None, entities'[j].unique_id)
        /\ UNCHANGED <<smarthumidifier, available_modes_cache, state_attributes, devices>>

NextId ==
    \/ SetupEntities
    \/ SensorUpdate
    \/ ReadUniqueId

SpecId == InitId /\ [][NextId]_vars

\* The fixed suffix of each sensor kind.
KindSuffix(e) ==
    IF e.cls = "VeSyncOutOfWaterSensor" THEN "-out_of_water"
    ELSE IF e.cls = "VeSyncWaterTankLiftedSensor" THEN "-water_tank_lifted"
    ELSE IF e.cls = "VeSyncFilterOpenStateSensor" THEN "-filter-open-state"
    ELSE "-" \o e.stype[1]

\* C7: the unique_id an adapter reports is the device's base identifier
\* followed by the fixed suffix of its sensor kind, two adapters of the same
\* device identity and sensor kind report equal unique_ids, and while an
\* adapter lives (until the next discovery builds new adapters) the
\* unique_id it has reported never changes, whatever the device reports.
C7_UniqueIdStable ==
    /\ [](\A j \in 1..Len(entities) :
             entities[j].unique_id # UnsetStr =>
                 /\ entities[j].unique_id
                       = devices[entities[j].device].uuid \o KindSuffix(entities[j])
                 /\ \A j2 \in 1..Len(entities) :
                       (/\ entities[j2].unique_id # UnsetStr
                        /\ devices[entities[j2].device].uuid = devices[entities[j].device].uuid
                        /\ entities[j2].cls = entities[j].cls
                        /\ entities[j2].stype = entities[j].stype)
                           => entities[j2].unique_id = entities[j].unique_id)
    /\ [][last'.op # "_setup_entities" \/ devices' # devices =>
             /\ Len(entities') = Len(entities)
             /\ \A j \in 1..Len(entities) :
                   entities[j].unique_id # UnsetStr
                       => entities'[j].unique_id = entities[j].unique_id]_vars

\* Two adapters of the same kind on two device objects of one identity have
\* both reported their unique_id, and the device has since changed state.
C7_Witness ==
    /\ Len(entities) >= 2
    /\ \E j1, j2 \in 1..Len(entities) :
          /\ j1 # j2
          /\ entities[j1].device # entities[j2].device
          /\ entities[j1].cls = "VeSyncOutOfWaterSensor"
          /\ entities[j2].cls = "VeSyncOutOfWaterSensor"
          /\ entities[j1].unique_id = "uuid-a-out_of_water"
          /\ entities[j2].unique_id = "uuid-a-out_of_water"
          /\ DictGet(devices[entities[j1].device].details, "water_lacks") = FALSE

====
